---------------------------- MODULE Spec2Model ----------------------------
(***************************************************************************)
(* Model of the two command-line utilities of the repository:              *)
(*                                                                         *)
(*   validate_properties.py     the validator  (specification Spec)        *)
(*   extract_api_properties.py  the extractor  (specification ExtractSpec) *)
(*                                                                         *)
(* A run of either program is one behaviour.  Init chooses the files on    *)
(* disk and the command line; the actions are the steps of main().  The    *)
(* functions main() calls are operators, computed the way the code         *)
(* computes them.  A Python dict is a sequence of <<key, value>> pairs     *)
(* with distinct keys, in insertion order; a Python list is a sequence.    *)
(***************************************************************************)
EXTENDS Integers, Sequences, FiniteSets, TLC

VARIABLES
    pc,               \* position of main()
    config_file,      \* validator: the rule document on disk
    properties_file,  \* validator: the JSON properties file on disk
    validation_rules, \* PropertyValidator.validation_rules
    properties,       \* main's `properties` (both programs)
    results,          \* validator: dict returned by validate_all_properties
    exit_code,        \* validator: main's local `exit_code`
    yaml_file,        \* extractor: the api.yaml on disk
    args,             \* extractor: parsed command line
    out_file,         \* extractor: state of the file named by --output
    output_calls,     \* extractor: number of calls of output_properties
    stdout,           \* lines printed to standard output
    stderr,           \* lines printed to the diagnostic stream
    status            \* process exit status: Running, or <<c>> once ended

vars == <<pc, config_file, properties_file, validation_rules, properties,
          results, exit_code, yaml_file, args, out_file, output_calls,
          stdout, stderr, status>>

validatorVars == <<config_file, properties_file, validation_rules, results, exit_code>>
extractorVars == <<yaml_file, args, out_file, output_calls>>

(***************************************************************************)
(* Bounds of the model.                                                    *)
(***************************************************************************)
MaxProps == 3      \* most entries of the JSON properties object
MaxRecords == 3    \* most records under data.additionalProperties

Names == {"env", "tier", "extra"}   \* property names
RuleNames == {"env", "tier"}        \* names a rule document may declare
Values == {"dev", "prod"}           \* property values

NoResults == <<>>  \* `results` before validate_all_properties returns
Unset == <<>>      \* `exit_code` before main assigns it; <<c>> once it is c
Running == <<>>    \* `status` while the process runs; <<c>> once it ended with c

(***************************************************************************)
(* Python dict and list primitives.                                        *)
(***************************************************************************)
Range(s) == {s[i] : i \in DOMAIN s}

Keys(d) == {d[i][1] : i \in DOMAIN d}

\* key in d
Has(d, k) == k \in Keys(d)

\* d[k], for a key of d
Item(d, k) == d[CHOOSE i \in DOMAIN d : d[i][1] = k][2]

\* d.get(k, default)
Get(d, k, default) == IF Has(d, k) THEN Item(d, k) ELSE default

\* d.setdefault(k, v): a key already there keeps its value
SetItem_KeepFirst(d, k, v) ==
    IF Has(d, k) THEN d ELSE Append(d, <<k, v>>)

\* d[k] = v: overwrites in place, or appends a new key
SetItem(d, k, v) ==
    IF Has(d, k)
    THEN [i \in DOMAIN d |-> IF d[i][1] = k THEN <<k, v>> ELSE d[i]]
    ELSE Append(d, <<k, v>>)

\* the dicts with keys from K, values from V and at most n entries
RECURSIVE DictsUpTo(_, _, _)
DictsUpTo(K, V, n) ==
    IF n = 0 THEN {<<>>}
    ELSE LET smaller == DictsUpTo(K, V, n - 1)
         IN  smaller \cup
             {Append(t[1], <<t[2], t[3]>>) :
                 t \in {u \in smaller \X K \X V :
                           Len(u[1]) = n - 1 /\ u[2] \notin Keys(u[1])}}

(***************************************************************************)
(* Validator: the inputs.  A file is missing, unparsable, or holds a       *)
(* document.  A rule is a mapping that may carry `required` and            *)
(* `valid_values`; valid_values is a list of values, kept as the set of    *)
(* its members (the code only tests membership and prints it).             *)
(***************************************************************************)
RuleObjects ==
    {<<>>}
    \cup {[required |-> r] : r \in BOOLEAN}
    \cup {[valid_values |-> v] : v \in SUBSET Values}
    \cup {[required |-> r, valid_values |-> v] : r \in BOOLEAN, v \in SUBSET Values}

RuleMappings == DictsUpTo(RuleNames, RuleObjects, Cardinality(RuleNames))

ConfigFiles ==
    {[kind |-> "missing"], [kind |-> "invalid"], [kind |-> "null"]}
    \cup {[kind |-> "mapping", items |-> <<>>]}
    \cup {[kind |-> "mapping", items |-> << <<"validation_rules", r>> >>] :
             r \in RuleMappings}

PropertiesFiles ==
    {[kind |-> "missing"], [kind |-> "invalid"], [kind |-> "list"]}
    \cup {[kind |-> "object", items |-> d] : d \in DictsUpTo(Names, Values, MaxProps)}

\* rule.get(key, default) on a rule object
RuleGet(rule, key, default) ==
    IF key \in DOMAIN rule THEN rule[key] ELSE default

\* validate_property with an empty or absent valid_values read as "no constraint"
validate_property_EmptyAcceptsAll(rules, property_name, property_value) ==
    IF ~Has(rules, property_name)
    THEN [valid |-> FALSE,
          error |-> [text |-> "not defined in validation rules",
                     property |-> property_name]]
    ELSE LET rule == Item(rules, property_name)
             valid_values == RuleGet(rule, "valid_values", {})
         IN  IF valid_values # {} /\ property_value \notin valid_values
             THEN [valid |-> FALSE,
                   error |-> [text |-> "has invalid value",
                              property |-> property_name,
                              value |-> property_value,
                              valid_values |-> valid_values]]
             ELSE [valid |-> TRUE]

(***************************************************************************)
(* PropertyValidator.validate_property                                     *)
(***************************************************************************)
validate_property(rules, property_name, property_value) ==
    IF ~Has(rules, property_name)
    THEN [valid |-> FALSE,
          error |-> [text |-> "not defined in validation rules",
                     property |-> property_name]]
    ELSE LET rule == Item(rules, property_name)
             valid_values == RuleGet(rule, "valid_values", {})
         IN  IF property_value \notin valid_values
             THEN [valid |-> FALSE,
                   error |-> [text |-> "has invalid value",
                              property |-> property_name,
                              value |-> property_value,
                              valid_values |-> valid_values]]
             ELSE [valid |-> TRUE]

\* the required test with `required` defaulting to true
IsMissingRequired_DefaultTrue(rule, property_name, props) ==
    RuleGet(rule, "required", TRUE) /\ ~Has(props, property_name)

\* the scan of the rules without the assignment to overall_valid
RECURSIVE CheckRequired_KeepsVerdict(_, _, _, _)
CheckRequired_KeepsVerdict(rules, props, i, res) ==
    IF i > Len(rules) THEN res
    ELSE CheckRequired_KeepsVerdict(rules, props, i + 1,
             IF RuleGet(rules[i][2], "required", FALSE) /\ ~Has(props, rules[i][1])
             THEN [res EXCEPT !.missing_required = Append(@, rules[i][1])]
             ELSE res)

(***************************************************************************)
(* PropertyValidator.validate_all_properties: the scan of the rules for    *)
(* missing required properties, then the loop over the properties.         *)
(***************************************************************************)
IsMissingRequired(rule, property_name, props) ==
    RuleGet(rule, "required", FALSE) /\ ~Has(props, property_name)

RECURSIVE CheckRequired(_, _, _, _)
CheckRequired(rules, props, i, res) ==
    IF i > Len(rules) THEN res
    ELSE LET property_name == rules[i][1]
             rule == rules[i][2]
         IN  CheckRequired(rules, props, i + 1,
                 IF IsMissingRequired(rule, property_name, props)
                 THEN [res EXCEPT
                          !.missing_required = Append(@, property_name),
                          !.overall_valid = FALSE]
                 ELSE res)

RecordResult(rules, res, property_name, property_value) ==
    LET validation_result == validate_property(rules, property_name, property_value)
        stored == [res EXCEPT !.property_results =
                        SetItem(@, property_name, validation_result)]
    IN  IF ~validation_result.valid
        THEN [stored EXCEPT !.overall_valid = FALSE,
                            !.errors = Append(@, validation_result.error)]
        ELSE stored

\* the loop over the properties, left at the first value failure
RECURSIVE ValidateProvided_StopsAtFailure(_, _, _, _)
ValidateProvided_StopsAtFailure(rules, props, i, res) ==
    IF i > Len(props) \/ res.errors # <<>> THEN res
    ELSE ValidateProvided_StopsAtFailure(rules, props, i + 1,
             IF ~Has(rules, props[i][1])
             THEN [res EXCEPT !.unknown_properties = Append(@, props[i][1])]
             ELSE RecordResult(rules, res, props[i][1], props[i][2]))

\* the loop over the properties, without the `continue` after an unknown name
RECURSIVE ValidateProvided_NoContinue(_, _, _, _)
ValidateProvided_NoContinue(rules, props, i, res) ==
    IF i > Len(props) THEN res
    ELSE ValidateProvided_NoContinue(rules, props, i + 1,
             RecordResult(rules,
                 IF ~Has(rules, props[i][1])
                 THEN [res EXCEPT !.unknown_properties = Append(@, props[i][1])]
                 ELSE res,
                 props[i][1], props[i][2]))

RECURSIVE ValidateProvided(_, _, _, _)
ValidateProvided(rules, props, i, res) ==
    IF i > Len(props) THEN res
    ELSE LET property_name == props[i][1]
             property_value == props[i][2]
         IN  ValidateProvided(rules, props, i + 1,
                 IF ~Has(rules, property_name)
                 THEN [res EXCEPT !.unknown_properties = Append(@, property_name)]
                 ELSE RecordResult(rules, res, property_name, property_value))

EmptyResults ==
    [overall_valid |-> TRUE, property_results |-> <<>>, missing_required |-> <<>>,
     errors |-> <<>>, unknown_properties |-> <<>>]

validate_all_properties(rules, props) ==
    ValidateProvided(rules, props, 1, CheckRequired(rules, props, 1, EmptyResults))

(***************************************************************************)
(* PropertyValidator.print_github_actions_output: the lines it prints.     *)
(***************************************************************************)
ReportLines(rules, res, props) ==
    LET PropertyLine(item) ==
            [line |-> "property", name |-> item[1], value |-> item[2]]
        ResultLine(item) ==
            [line |-> "result", valid |-> item[2].valid, name |-> item[1],
             value |-> Get(props, item[1], "N/A")]
        UnknownLine(prop) ==
            [line |-> "::warning::Unknown property", name |-> prop,
             value |-> Item(props, prop)]
        MissingLine(prop) ==
            [line |-> "::error::Missing required property", name |-> prop,
             valid_values |-> RuleGet(Item(rules, prop), "valid_values", {})]
        ErrorLine(error) == [line |-> "::error::", error |-> error]
    IN  << [line |-> "::group::Property Validation Report"],
           [line |-> IF res.overall_valid THEN "VALIDATION PASSED"
                                          ELSE "VALIDATION FAILED"],
           [line |-> "Extracted Properties", count |-> Len(props)] >>
        \o [i \in DOMAIN props |-> PropertyLine(props[i])]
        \o (IF res.property_results # <<>>
            THEN << [line |-> "Property Validation Results:"] >>
                 \o [i \in DOMAIN res.property_results |-> ResultLine(res.property_results[i])]
            ELSE <<>>)
        \o [i \in DOMAIN res.unknown_properties |-> UnknownLine(res.unknown_properties[i])]
        \o [i \in DOMAIN res.missing_required |-> MissingLine(res.missing_required[i])]
        \o [i \in DOMAIN res.errors |-> ErrorLine(res.errors[i])]
        \o << [line |-> "::endgroup::"] >>
        \o << IF res.overall_valid
              THEN [line |-> "::notice::Property validation completed successfully"]
              ELSE [line |-> "::error::Property validation failed",
                    error_count |-> Len(res.errors) + Len(res.missing_required)] >>

(***************************************************************************)
(* Validator: main().                                                      *)
(***************************************************************************)
Init ==
    /\ pc = "start"
    /\ config_file \in ConfigFiles
    /\ properties_file \in PropertiesFiles
    /\ validation_rules = <<>>
    /\ properties = <<>>
    /\ results = NoResults
    /\ exit_code = Unset
    /\ stdout = <<>>
    /\ stderr = <<>>
    /\ status = Running
    /\ yaml_file = <<>>
    /\ args = <<>>
    /\ out_file = <<>>
    /\ output_calls = 0

\* sys.exit with the failure status written in
SysExitWith_AlwaysOne(code) ==
    /\ status' = <<1>>
    /\ pc' = "exited"

\* sys.exit(code)
SysExitWith(code) ==
    /\ status' = <<code>>
    /\ pc' = "exited"

\* validator = PropertyValidator(args.config)
LoadConfig ==
    /\ pc = "start"
    /\ IF config_file.kind = "missing"
       THEN /\ stdout' = Append(stdout, [line |-> "::error::Configuration file not found"])
            /\ SysExitWith(1)
            /\ UNCHANGED <<validation_rules, stderr>>
       ELSE IF config_file.kind = "invalid"
       THEN /\ stdout' = Append(stdout, [line |-> "::error::Invalid YAML in configuration file"])
            /\ SysExitWith(1)
            /\ UNCHANGED <<validation_rules, stderr>>
       ELSE IF config_file.kind = "null"
       THEN \* an empty document loads as None: self.config.get raises AttributeError
            /\ stderr' = Append(stderr, [line |-> "Traceback", error |-> "AttributeError"])
            /\ SysExitWith(1)  \* the interpreter's status for an uncaught exception
            /\ UNCHANGED <<validation_rules, stdout>>
       ELSE /\ validation_rules' = Get(config_file.items, "validation_rules", <<>>)
            /\ pc' = "config_loaded"
            /\ UNCHANGED <<stdout, stderr, status>>
    /\ UNCHANGED <<config_file, properties_file, properties, results, exit_code>>
    /\ UNCHANGED extractorVars

\* properties = validator.load_properties_from_json(args.properties_file)
LoadProperties ==
    /\ pc = "config_loaded"
    /\ IF properties_file.kind = "missing"
       THEN /\ stdout' = Append(stdout, [line |-> "::error::Properties file not found"])
            /\ SysExitWith(1)
            /\ UNCHANGED properties
       ELSE IF properties_file.kind = "invalid"
       THEN /\ stdout' = Append(stdout, [line |-> "::error::Invalid JSON in properties file"])
            /\ SysExitWith(1)
            /\ UNCHANGED properties
       ELSE /\ properties' = IF properties_file.kind = "object"
                             THEN properties_file.items
                             ELSE <<>>
            /\ pc' = "properties_loaded"
            /\ UNCHANGED <<stdout, status>>
    /\ UNCHANGED <<config_file, properties_file, validation_rules, results,
                   exit_code, stderr>>
    /\ UNCHANGED extractorVars

\* the warning for an empty PropertySet, then validate_all_properties
Validate ==
    /\ pc = "properties_loaded"
    /\ stdout' = IF properties = <<>>
                 THEN Append(stdout, [line |-> "::warning::No properties found in input file"])
                 ELSE stdout
    /\ results' = validate_all_properties(validation_rules, properties)
    /\ pc' = "validated"
    /\ UNCHANGED <<config_file, properties_file, validation_rules, properties,
                   exit_code, stderr, status>>
    /\ UNCHANGED extractorVars

\* validator.print_github_actions_output(results, properties)
PrintReport ==
    /\ pc = "validated"
    /\ stdout' = stdout \o ReportLines(validation_rules, results, properties)
    /\ pc' = "reported"
    /\ UNCHANGED <<config_file, properties_file, validation_rules, properties,
                   results, exit_code, stderr, status>>
    /\ UNCHANGED extractorVars

\* the exit code with the two outcomes exchanged
ExitCodeFor_Inverted(res) == IF res.overall_valid THEN 1 ELSE 0

\* exit_code = 0 if results["overall_valid"] else 1
ExitCodeFor(res) == IF res.overall_valid THEN 0 ELSE 1

\* the exit code is chosen and stated on a ::debug:: line
AnnounceExit ==
    /\ pc = "reported"
    /\ exit_code' = <<ExitCodeFor(results)>>
    /\ stdout' = Append(stdout, [line |-> "::debug::Exiting with code",
                                 code |-> ExitCodeFor(results)])
    /\ pc' = "announced"
    /\ UNCHANGED <<config_file, properties_file, validation_rules, properties,
                   results, stderr, status>>
    /\ UNCHANGED extractorVars

\* sys.exit(exit_code)
Exit ==
    /\ pc = "announced"
    /\ SysExitWith(exit_code[1])
    /\ UNCHANGED <<config_file, properties_file, validation_rules, properties,
                   results, exit_code, stdout, stderr>>
    /\ UNCHANGED extractorVars

Next ==
    \/ LoadConfig
    \/ LoadProperties
    \/ Validate
    \/ PrintReport
    \/ AnnounceExit
    \/ Exit

Spec == Init /\ [][Next]_vars

(***************************************************************************)
(* Extractor: the inputs.  yaml.safe_load gives null, a scalar, a list or  *)
(* a mapping; a node carries its kind.   The strings of the model are whole *)
(* tokens none of which contains another, so the substring test `key in s` *)
(* on a string is equality.                                                *)
(***************************************************************************)
XNames == {"env", "Tier"}   \* names of the records of the source document

NullNode == [kind |-> "null"]

IntNode == [kind |-> "int"]

StrNode(text) == [kind |-> "str", text |-> text]

ListNode(items) == [kind |-> "list", members |-> items]

MappingNode(items) == [kind |-> "mapping", members |-> items]

RecordNodes ==
    {MappingNode(<< <<"name", StrNode(n)>>, <<"value", StrNode(v)>> >>) : n \in XNames, v \in Values}
    \cup {MappingNode(<< <<"name", StrNode("env")>> >>),
          MappingNode(<< <<"value", StrNode("dev")>> >>),
          StrNode("name"),
          NullNode}

RECURSIVE ListsUpTo(_, _)
ListsUpTo(S, n) ==
    IF n = 0 THEN {<<>>}
    ELSE LET shorter == ListsUpTo(S, n - 1)
         IN  shorter \cup {Append(l, x) : l \in {m \in shorter : Len(m) = n - 1}, x \in S}

PropertiesNodes ==
    {NullNode, MappingNode(<< <<"name", StrNode("env")>> >>)}
    \cup {ListNode(l) : l \in ListsUpTo(RecordNodes, MaxRecords)}

DataNodes ==
    {NullNode, IntNode, StrNode("additionalProperties"), ListNode(<<>>), MappingNode(<<>>)}
    \cup {MappingNode(<< <<"additionalProperties", a>> >>) : a \in PropertiesNodes}

Documents ==
    {NullNode, IntNode, StrNode("env"), StrNode("data"), ListNode(<<>>), ListNode(<< StrNode("data") >>),
     MappingNode(<<>>), MappingNode(<< <<"info", IntNode>> >>)}
    \cup {MappingNode(<< <<"data", d>> >>) : d \in DataNodes}

YamlFiles ==
    {[kind |-> "missing"], [kind |-> "invalid"]}
    \cup {[kind |-> "document", data |-> d] : d \in Documents}

(***************************************************************************)
(* Python's `in`, subscript and iteration on a loaded node.                *)
(***************************************************************************)
\* `key in node` raises TypeError
ContainsRaises(node) == node.kind \in {"null", "int"}

\* key in node
Contains(key, node) ==
    CASE node.kind = "mapping" -> Has(node.members, key)
      [] node.kind = "list" -> \E i \in DOMAIN node.members : node.members[i] = StrNode(key)
      [] node.kind = "str" -> node.text = key

\* node[key], for a string key, raises TypeError
SubscriptRaises(node) == node.kind # "mapping"

\* node[key]
Subscript(node, key) == Item(node.members, key)

\* `for prop in node` raises TypeError
IterationRaises(node) == node.kind \in {"null", "int"}

\* what `for prop in node` yields: the items of a list, the keys of a mapping
Elements(node) ==
    CASE node.kind = "list" -> node.members
      [] node.kind = "mapping" -> [i \in DOMAIN node.members |-> StrNode(node.members[i][1])]

(***************************************************************************)
(* extract_properties_from_yaml                                            *)
(***************************************************************************)
Raised(exception) == [raised |-> exception, properties |-> <<>>]

Returned(props) == [raised |-> "", properties |-> props]

\* 'name' in prop and 'value' in prop
HasNameAndValue(prop) == Contains("name", prop) /\ Contains("value", prop)

RECURSIVE ExtractRecords(_, _, _)
ExtractRecords(records, i, props) ==
    IF i > Len(records) THEN Returned(props)
    ELSE LET prop == records[i]
         IN  IF ContainsRaises(prop) THEN Raised("TypeError")
             ELSE IF HasNameAndValue(prop)
             THEN IF SubscriptRaises(prop) THEN Raised("TypeError")
                  ELSE ExtractRecords(records, i + 1,
                           SetItem(props, Subscript(prop, "name").text,
                                          Subscript(prop, "value").text))
             ELSE ExtractRecords(records, i + 1, props)

ExtractFromData(data) ==
    IF ContainsRaises(data) THEN Raised("TypeError")
    ELSE IF ~Contains("data", data) THEN Returned(<<>>)
    ELSE IF SubscriptRaises(data) THEN Raised("TypeError")
    ELSE LET inner == Subscript(data, "data")
         IN  IF ContainsRaises(inner) THEN Raised("TypeError")
             ELSE IF ~Contains("additionalProperties", inner) THEN Returned(<<>>)
             ELSE IF SubscriptRaises(inner) THEN Raised("TypeError")
             ELSE LET listed == Subscript(inner, "additionalProperties")
                  IN  IF IterationRaises(listed) THEN Raised("TypeError")
                      ELSE ExtractRecords(Elements(listed), 1, <<>>)

\* the outcome of the call: the dict returned, or the message printed to the
\* diagnostic stream before sys.exit(1)
extract_properties_from_yaml(file) ==
    IF file.kind = "missing"
    THEN [exits |-> TRUE, message |-> [line |-> "Error: File not found"],
          properties |-> <<>>]
    ELSE IF file.kind = "invalid"
    THEN [exits |-> TRUE, message |-> [line |-> "Error parsing YAML file"],
          properties |-> <<>>]
    ELSE LET got == ExtractFromData(file.data)
         IN  IF got.raised # ""
             THEN [exits |-> TRUE,
                   message |-> [line |-> "Error:", exception |-> got.raised],
                   properties |-> <<>>]
             ELSE [exits |-> FALSE, message |-> [line |-> ""],
                   properties |-> got.properties]

(***************************************************************************)
(* output_properties: the content rendered in each format, and where it    *)
(* goes.  A text is kept as its format and its lines (or, for json and     *)
(* yaml, the object dumped).                                               *)
(***************************************************************************)
Formats == {"json", "env", "yaml", "github", "console"}

\* str.upper
ToUpper(k) == CASE k = "env" -> "ENV" [] k = "Tier" -> "TIER"

\* str.lower
ToLower(k) == CASE k = "env" -> "env" [] k = "Tier" -> "tier"

\* the keys in the order yaml.dump writes them (sorted)
SortedKeys == <<"Tier", "env">>

SortByKey(props) ==
    LET kept == SelectSeq(SortedKeys, LAMBDA k : Has(props, k))
    IN  [i \in DOMAIN kept |-> <<kept[i], Item(props, kept[i])>>]

output_content(props, output_format) ==
    CASE output_format = "json" ->
            [format |-> "json", body |-> props]
      [] output_format = "env" ->
            [format |-> "lines",
             body |-> [i \in DOMAIN props |-> <<ToUpper(props[i][1]), "=", props[i][2]>>]]
      [] output_format = "yaml" ->
            [format |-> "yaml", body |-> SortByKey(props)]
      [] output_format = "github" ->
            [format |-> "lines",
             body |-> [i \in DOMAIN props |-> <<ToLower(props[i][1]), "=", props[i][2]>>]]
      [] output_format = "console" ->
            [format |-> "lines",
             body |-> [i \in DOMAIN props |-> <<props[i][1], ": ", props[i][2]>>]]

Paths == {"new.txt", "existing.txt"}

NoOutput == ""   \* --output not given: `if output_file` is false

PreviousContent == [format |-> "previous", body |-> <<>>]

InitialFiles ==
    [p \in Paths |->
        IF p = "existing.txt"
        THEN [exists |-> TRUE, content |-> PreviousContent]
        ELSE [exists |-> FALSE, content |-> PreviousContent]]

ArgumentSets ==
    [format : Formats, output : Paths \cup {NoOutput}, verbose : BOOLEAN]

(***************************************************************************)
(* Extractor: main().                                                      *)
(***************************************************************************)
ExtractInit ==
    /\ pc = "start"
    /\ yaml_file \in YamlFiles
    /\ args \in ArgumentSets
    /\ out_file = InitialFiles
    /\ output_calls = 0
    /\ properties = <<>>
    /\ stdout = <<>>
    /\ stderr = <<>>
    /\ status = Running
    /\ config_file = <<>>
    /\ properties_file = <<>>
    /\ validation_rules = <<>>
    /\ results = NoResults
    /\ exit_code = Unset

\* if args.verbose: the source path goes to the diagnostic stream
AnnounceSource ==
    /\ pc = "start"
    /\ stderr' = IF args.verbose
                 THEN Append(stderr, [line |-> "Extracting properties from"])
                 ELSE stderr
    /\ pc' = "announced_source"
    /\ UNCHANGED <<properties, stdout, status>>
    /\ UNCHANGED extractorVars
    /\ UNCHANGED validatorVars

\* properties = extract_properties_from_yaml(args.yaml_file)
ExtractProperties ==
    /\ pc = "announced_source"
    /\ LET outcome == extract_properties_from_yaml(yaml_file)
       IN  IF outcome.exits
           THEN /\ stderr' = Append(stderr, outcome.message)
                /\ SysExitWith(1)
                /\ UNCHANGED properties
           ELSE /\ properties' = outcome.properties
                /\ pc' = "extracted"
                /\ UNCHANGED <<stderr, status>>
    /\ UNCHANGED stdout
    /\ UNCHANGED extractorVars
    /\ UNCHANGED validatorVars

\* the emptiness test left out
IsEmpty_Never(props) == FALSE

\* not properties
IsEmpty(props) == props = <<>>

\* if not properties: notice and sys.exit(0); else the count, when verbose
CheckEmpty ==
    /\ pc = "extracted"
    /\ IF IsEmpty(properties)
       THEN /\ stderr' = Append(stderr,
                   [line |-> "No properties found in additionalProperties section"])
            /\ SysExitWith(0)
       ELSE /\ stderr' = IF args.verbose
                         THEN Append(stderr, [line |-> "Found properties",
                                              count |-> Len(properties)])
                         ELSE stderr
            /\ pc' = "found"
            /\ UNCHANGED status
    /\ UNCHANGED <<properties, stdout>>
    /\ UNCHANGED extractorVars
    /\ UNCHANGED validatorVars

\* output_properties(properties, args.format, args.output)
OutputProperties ==
    /\ pc = "found"
    /\ output_calls' = output_calls + 1
    /\ LET content == output_content(properties, args.format)
       IN  IF args.output # NoOutput
           THEN /\ out_file' = [out_file EXCEPT ![args.output] =
                                    [exists |-> TRUE, content |-> content]]
                /\ stdout' = Append(stdout, [line |-> "Properties written to",
                                             path |-> args.output])
           ELSE /\ stdout' = Append(stdout, [line |-> "content", content |-> content])
                /\ UNCHANGED out_file
    /\ pc' = "written"
    /\ UNCHANGED <<properties, stderr, status, yaml_file, args>>
    /\ UNCHANGED validatorVars

\* return 0, and sys.exit(main())
ReturnZero ==
    /\ pc = "written"
    /\ SysExitWith(0)
    /\ UNCHANGED <<properties, stdout, stderr>>
    /\ UNCHANGED extractorVars
    /\ UNCHANGED validatorVars

ExtractNext ==
    \/ AnnounceSource
    \/ ExtractProperties
    \/ CheckEmpty
    \/ OutputProperties
    \/ ReturnZero

ExtractSpec == ExtractInit /\ [][ExtractNext]_vars

(***************************************************************************)
(* Validator: the properties checked.  What a rule declares is read here   *)
(* from the rule document itself.                                          *)
(***************************************************************************)
Validated == results # NoResults

DeclaredRequired(rule) == "required" \in DOMAIN rule /\ rule.required

DeclaredValues(rule) ==
    IF "valid_values" \in DOMAIN rule THEN rule.valid_values ELSE {}

PresentNames == {properties[i][1] : i \in DOMAIN properties}

RuleNamesLoaded == {validation_rules[i][1] : i \in DOMAIN validation_rules}

RuleOf(n) == validation_rules[CHOOSE i \in DOMAIN validation_rules :
                                 validation_rules[i][1] = n][2]

ValueOf(n) == properties[CHOOSE i \in DOMAIN properties : properties[i][1] = n][2]

RequiredAbsent ==
    {n \in RuleNamesLoaded : DeclaredRequired(RuleOf(n)) /\ n \notin PresentNames}

KnownPresent == PresentNames \cap RuleNamesLoaded

UnknownPresent == PresentNames \ RuleNamesLoaded

BadValued == {n \in KnownPresent : ValueOf(n) \notin DeclaredValues(RuleOf(n))}

KnownOnly == SelectSeq(properties, LAMBDA item : item[1] \in RuleNamesLoaded)

\* C1: the overall verdict is valid if and only if no required rule names an
\* absent property and every present property that has a rule has a value among
\* the rule's valid_values; the verdict is the one the same PropertySet gets with
\* its rule-less properties removed.
C1_VerdictIff ==
    Validated =>
        /\ results.overall_valid <=> (RequiredAbsent = {} /\ BadValued = {})
        /\ results.overall_valid =
               validate_all_properties(validation_rules, KnownOnly).overall_valid

C1_Witness ==
    /\ Validated
    /\ results.overall_valid
    /\ UnknownPresent # {}
    /\ KnownPresent # {}
    /\ \E n \in RuleNamesLoaded : DeclaredRequired(RuleOf(n))

C3_MissingRequired ==
    Validated =>
        /\ Range(results.missing_required) = RequiredAbsent
        /\ RequiredAbsent # {} => ~results.overall_valid

C3_Witness ==
    /\ Validated
    /\ RequiredAbsent # {}
    /\ UnknownPresent # {}
    /\ KnownPresent # {} /\ BadValued = {}
    /\ ~results.overall_valid

\* C4: a present property whose rule exists with valid_values empty or absent
\* fails whatever its value: its verdict is invalid, an error naming it is
\* recorded, and the overall verdict is false.
C4_EmptyValidValues ==
    Validated =>
        \A n \in KnownPresent :
            DeclaredValues(RuleOf(n)) = {} =>
                /\ ~Item(results.property_results, n).valid
                /\ \E k \in DOMAIN results.errors :
                       /\ results.errors[k].property = n
                       /\ results.errors[k].value = ValueOf(n)
                /\ ~results.overall_valid

C4_Witness ==
    /\ Validated
    /\ \E n \in KnownPresent : "valid_values" \notin DOMAIN RuleOf(n)
    /\ \E n \in KnownPresent :
           "valid_values" \in DOMAIN RuleOf(n) /\ RuleOf(n).valid_values = {}
    /\ Len(results.errors) = 2

IsExitLine(l) == l.line = "::debug::Exiting with code"

ExitLineIsLast ==
    /\ stdout # <<>>
    /\ IsExitLine(stdout[Len(stdout)])
    /\ \A k \in 1 .. Len(stdout) - 1 : ~IsExitLine(stdout[k])

\* C8 as claimed: however the process ends, the last line printed states the
\* exit code and the code stated is the exit status.
C8_ExitLineOnEveryPath ==
    pc = "exited" => (ExitLineIsLast /\ <<stdout[Len(stdout)].code>> = status)

\* C8 amended: when both documents load, the line stating the exit code is
\* printed last, before the process ends, and states the exit status; when
\* loading either document fails, the process ends with status 1 after an error
\* diagnostic and no line states the exit code.
C8_ExitLineAfterValidation ==
    /\ pc = "announced" =>
           (status = Running /\ ExitLineIsLast /\ <<stdout[Len(stdout)].code>> = exit_code)
    /\ (pc = "exited" /\ Validated) =>
           (ExitLineIsLast /\ <<stdout[Len(stdout)].code>> = status)
    /\ (pc = "exited" /\ ~Validated) =>
           /\ status = <<1>>
           /\ \A k \in DOMAIN stdout : ~IsExitLine(stdout[k])
           /\ Len(stdout) + Len(stderr) = 1

C8_Witness ==
    /\ pc = "exited"
    /\ Validated
    /\ status = <<0>>
    /\ stdout[Len(stdout)] = [line |-> "::debug::Exiting with code", code |-> 0]

ErrorsFor(n) == {k \in DOMAIN results.errors : results.errors[k].property = n}

\* C9: the scan is never cut short: property_results holds a verdict, the right
\* one, for every present property that has a rule, and errors holds exactly one
\* message for each of them whose value is not accepted, and nothing else.
C9_ScanCompletes ==
    Validated =>
        /\ Keys(results.property_results) = KnownPresent
        /\ \A n \in KnownPresent :
               Item(results.property_results, n).valid <=> n \notin BadValued
        /\ \A n \in BadValued : Cardinality(ErrorsFor(n)) = 1
        /\ Len(results.errors) = Cardinality(BadValued)

C9_Witness ==
    /\ Validated
    /\ Len(properties) = 3
    /\ properties[1][1] \in UnknownPresent
    /\ Cardinality(BadValued) = 2
    /\ Len(results.errors) = 2

\* C10: every present property is in exactly one place: without a rule, in
\* unknown_properties (once), with no entry in property_results and no error;
\* with a rule, in property_results and not in unknown_properties; and no name
\* of missing_required is in either.
C10_Classification ==
    Validated =>
        /\ Range(results.unknown_properties) = UnknownPresent
        /\ Len(results.unknown_properties) = Cardinality(UnknownPresent)
        /\ Keys(results.property_results) = KnownPresent
        /\ \A n \in UnknownPresent : ErrorsFor(n) = {}
        /\ Range(results.missing_required)
               \cap (Range(results.unknown_properties)
                         \cup Keys(results.property_results)) = {}

C10_Witness ==
    /\ Validated
    /\ UnknownPresent # {}
    /\ KnownPresent # {}
    /\ results.missing_required # <<>>

(***************************************************************************)
(* Extractor: the properties checked.  The shape of the source document is *)
(* read here from the document itself.                                     *)
(***************************************************************************)
IsDocument == yaml_file.kind = "document"

IsMappingWith(node, key) ==
    node.kind = "mapping" /\ \E i \in DOMAIN node.members : node.members[i][1] = key

Under(node, key) ==
    node.members[CHOOSE i \in DOMAIN node.members : node.members[i][1] = key][2]

\* the document has data.additionalProperties
HasLocation ==
    /\ IsDocument
    /\ IsMappingWith(yaml_file.data, "data")
    /\ IsMappingWith(Under(yaml_file.data, "data"), "additionalProperties")

AtLocation == Under(Under(yaml_file.data, "data"), "additionalProperties")

\* the location holds a list of mappings
HasRecordList ==
    /\ HasLocation
    /\ AtLocation.kind = "list"
    /\ \A i \in DOMAIN AtLocation.members : AtLocation.members[i].kind = "mapping"

IsComplete(record) == IsMappingWith(record, "name") /\ IsMappingWith(record, "value")

ValidRecords == SelectSeq(AtLocation.members, IsComplete)

NameOf(record) == Under(record, "name").text

ValidNames == {NameOf(ValidRecords[i]) : i \in DOMAIN ValidRecords}

LastValue(n) ==
    LET last == CHOOSE i \in DOMAIN ValidRecords :
                    /\ NameOf(ValidRecords[i]) = n
                    /\ \A j \in DOMAIN ValidRecords :
                           NameOf(ValidRecords[j]) = n => j <= i
    IN  Under(ValidRecords[last], "value").text

Extracted ==
    \/ pc \in {"extracted", "found", "written"}
    \/ pc = "exited" /\ status = <<0>>

ErrorExit == pc = "exited" /\ status # <<0>>

\* C5 as claimed: a document that parses but lacks data.additionalProperties,
\* the empty document included, gives an empty PropertySet and no error exit;
\* and in a list of records at that location the records missing name or value
\* are skipped without an error while the others are extracted.
C5_TolerantExtraction ==
    /\ (IsDocument /\ ~HasLocation) =>
           (~ErrorExit /\ (Extracted => properties = <<>>))
    /\ HasRecordList =>
           (~ErrorExit /\ (Extracted => Keys(properties) = ValidNames))

\* C6 as claimed: N valid records give a PropertySet of size N.
C6_SizeIsRecordCount ==
    (HasRecordList /\ Extracted) => Len(properties) = Len(ValidRecords)

\* C6 amended: the PropertySet has one entry for each distinct name among the
\* valid records (so N entries when the N names differ), each name maps to the
\* value of the last valid record carrying it, and the records missing name or
\* value contribute no entry.
C6_LastRecordWins ==
    (HasRecordList /\ Extracted) =>
        /\ Keys(properties) = ValidNames
        /\ Len(properties) = Cardinality(ValidNames)
        /\ \A n \in ValidNames : Item(properties, n) = LastValue(n)
        /\ Cardinality(ValidNames) = Len(ValidRecords) =>
               Len(properties) = Len(ValidRecords)

C6_Witness ==
    /\ HasRecordList
    /\ Extracted
    /\ Len(AtLocation.members) = 3
    /\ Len(ValidRecords) = 2
    /\ properties = << <<"env", "prod">> >>
    /\ Under(ValidRecords[1], "value").text = "dev"

EmptyNotice == [line |-> "No properties found in additionalProperties section"]

=============================================================================
